---- MODULE Spec2Model ----
(***************************************************************************)
(* Model of scripts/validate-versions.js: validateVersions(), the version  *)
(* consistency check over package.json, node_modules/react/package.json    *)
(* and the four built dist files.                                          *)
(*                                                                         *)
(* A JavaScript string is a sequence of one-character strings.  The JS     *)
(* values undefined and null are one-element sequences whose element is    *)
(* no character, so they never equal a JS string.                          *)
(***************************************************************************)
EXTENDS Integers, Sequences, FiniteSets, TLC

----------------------------------------------------------------------------
(* Bounds of the model *)

\* package versions range over 19.1.0 .. 19.<MaxMinor>.0
MaxMinor == 2

\* longest version-like body of a constraint in the normalisation inputs
MaxBody == 5

\* longest run of leading operator characters in the normalisation inputs
MaxOps == 2

----------------------------------------------------------------------------
(* JavaScript values *)

Undefined == <<"UNDEFINED">>

Null == <<"NULL">>

NL == "\n"

Digits == {"0", "1", "2", "3", "4", "5", "6", "7", "8", "9"}

DigitChar(n) == <<"0", "1", "2", "3", "4", "5", "6", "7", "8", "9">>[n + 1]

\* the character class of /^[\^~>=<]/
OpChars == {"^", "~", ">", "=", "<"}

----------------------------------------------------------------------------
(* Pure functions of the script *)

RECURSIVE StripOpAll(_)
\* faulty variant: the pattern with a + quantifier, every leading operator character goes
StripOpAll(s) ==
  IF Len(s) > 0 /\ s[1] \in OpChars THEN StripOpAll(Tail(s)) ELSE s

\* s.replace(/^[\^~>=<]/, ''): one leading operator character is removed
StripOp(s) ==
  IF Len(s) > 0 /\ s[1] \in OpChars THEN Tail(s) ELSE s

\* content.split('\n')[0]
FirstLine(content) ==
  IF \E i \in 1..Len(content) : content[i] = NL
  THEN LET n == CHOOSE i \in 1..Len(content) :
                  /\ content[i] = NL
                  /\ \A k \in 1..(i - 1) : content[k] # NL
       IN SubSeq(content, 1, n - 1)
  ELSE content

RECURSIVE DigitRun(_, _)
\* \d+ from position i: the position after the longest run of digits
DigitRun(s, i) ==
  IF i <= Len(s) /\ s[i] \in Digits THEN DigitRun(s, i + 1) ELSE i

\* \d+\.\d+\.\d+ from position i: the position after the match, 0 if none
GroupEnd(s, i) ==
  LET a == DigitRun(s, i)
  IN IF a = i \/ a > Len(s) \/ s[a] # "." THEN 0
     ELSE LET b == DigitRun(s, a + 1)
          IN IF b = a + 1 \/ b > Len(s) \/ s[b] # "." THEN 0
             ELSE LET c == DigitRun(s, b + 1)
                  IN IF c = b + 1 THEN 0 ELSE c

RECURSIVE MatchFrom(_, _)
\* the regex engine's scan: the first position where the pattern matches
MatchFrom(s, i) ==
  IF i > Len(s) THEN Null
  ELSE IF s[i] = "v" /\ GroupEnd(s, i + 1) # 0
       THEN SubSeq(s, i + 1, GroupEnd(s, i + 1) - 1)
       ELSE MatchFrom(s, i + 1)

\* faulty variant: the pattern is tried at the first "v" of the line only
VersionMatchFirstV(line) ==
  IF \A i \in 1..Len(line) : line[i] # "v" THEN Null
  ELSE LET i == CHOOSE i \in 1..Len(line) :
                  line[i] = "v" /\ \A k \in 1..(i - 1) : line[k] # "v"
       IN IF GroupEnd(line, i + 1) # 0
          THEN SubSeq(line, i + 1, GroupEnd(line, i + 1) - 1)
          ELSE Null

\* firstLine.match(/v(\d+\.\d+\.\d+)/): capture group 1, or null
VersionMatch(line) == MatchFrom(line, 1)

\* faulty variant: the whole file is scanned, not its first line
ScannedTextWhole(content) == content

\* the text the version is extracted from
ScannedText(content) == FirstLine(content)

----------------------------------------------------------------------------
(* The files the script reads *)

DistFiles ==
  << "dist/react.production.min.js",
     "dist/react.development.js",
     "dist/react-dom.production.min.js",
     "dist/react-dom.development.js" >>

NumDistFiles == Len(DistFiles)

Ver(n) == <<"1", "9", ".", DigitChar(n), ".", "0">>

Versions == { Ver(n) : n \in 1..MaxMinor }

\* package.json: absent, not JSON, or JSON whose version and whose two
\* devDependencies entries are strings or not (Undefined)
ManifestFile(kind, version, hasDev, react, reactDom) ==
  [kind |-> kind, version |-> version, hasDev |-> hasDev,
   react |-> react, reactDom |-> reactDom]

NotRead == ManifestFile("notread", Undefined, FALSE, Undefined, Undefined)

ReactConstraints ==
  { <<"^">> \o v : v \in Versions } \cup { <<">", "=">> \o Ver(1), Undefined }

ReactDomConstraints ==
  { <<"~">> \o Ver(1), Ver(MaxMinor), Undefined }

Manifests ==
  { ManifestFile("absent", Undefined, FALSE, Undefined, Undefined),
    ManifestFile("unparsable", Undefined, FALSE, Undefined, Undefined),
    ManifestFile("json", Ver(1), FALSE, Undefined, Undefined) }
  \cup
  { ManifestFile("json", v, TRUE, r, d) :
      v \in Versions \cup {Undefined},
      r \in ReactConstraints, d \in ReactDomConstraints }

\* node_modules/react/package.json
DescriptorFile(kind, version) == [kind |-> kind, version |-> version]

Descriptors ==
  { DescriptorFile("absent", Undefined),
    DescriptorFile("unparsable", Undefined),
    DescriptorFile("json", Undefined) }
  \cup { DescriptorFile("json", v) : v \in Versions }

\* a dist file: absent, or its content
DistFile(exists, content) == [exists |-> exists, content |-> content]

\* "!v19.N.0 */" then a second line that carries another version
HeaderContent(v) ==
  <<"!">> \o <<"v">> \o v \o <<" ", "*", "/", NL, "v">> \o Ver(MaxMinor + 1)

\* no version on the first line, one on the second
NoVersionContent == <<"!", "x", NL, "v">> \o Ver(1)

\* two failed starts ("v19.d" and the v of "dev "), then v19.1.0 followed by a digit
LateMatchContent ==
  <<"v", "1", "9", ".", "d", "e", "v", " ">> \o <<"v">> \o Ver(1) \o <<"7">>

DistContents ==
  { DistFile(FALSE, <<>>), DistFile(TRUE, <<>>), DistFile(TRUE, NoVersionContent),
    DistFile(TRUE, LateMatchContent) }
  \cup { DistFile(TRUE, HeaderContent(v)) : v \in Versions }

Unread == DistFile(FALSE, <<"UNREAD">>)

----------------------------------------------------------------------------
(* Diagnostics and console lines *)

Msg(tag, file, got, want) ==
  [tag |-> tag, file |-> file, got |-> got, want |-> want]

Line(tag) == Msg(tag, "", <<>>, <<>>)

\* line 36
ReactMismatch(dep, version) == Msg("devDependencies.react mismatch", "", dep, version)
\* line 42
ReactDomMismatch(dep, version) == Msg("devDependencies.react-dom mismatch", "", dep, version)
\* line 56
InstalledMismatch(inst, dep) == Msg("Installed React mismatch", "", inst, dep)
\* line 57
HintInstall == Line("Run: npm install")
\* line 88
DistMismatch(file, emb, version) == Msg("dist version mismatch", file, emb, version)
\* line 89
HintBuild == Line("Run: npm run build")
\* line 93
CouldNotExtract(file) == Msg("Could not extract version", file, <<>>, <<>>)
\* line 101
NoDistFilesFound == Line("No dist files found")
\* line 99
AllDistOk == Line("All dist files have correct versions")
\* line 108
ValidationFailed == Line("VALIDATION FAILED")
\* line 114
WarningsHeader == Line("WARNINGS")
\* line 118
AllPassed == Line("All version validations passed")

----------------------------------------------------------------------------
(* State *)

VARIABLES
  pc,               \* the statement validateVersions() is at
  pkg,              \* package.json as read
  installed,        \* node_modules/react/package.json as read
  dist,             \* the dist files as read, by index in DistFiles
  packageVersion, reactDevDep, reactDomDevDep,
  idx,              \* index of the for loop over distFiles
  distFilesChecked,
  errors, warnings,
  log,              \* what console.log has printed (confirmations, report)
  exitStatus,       \* <<>> while running, <<code>> once the process ended
  normIn, normOut, normTwice   \* the normalisation applied on its own

runVars ==
  << pc, pkg, installed, dist, packageVersion, reactDevDep, reactDomDevDep,
     idx, distFilesChecked, errors, warnings, log, exitStatus >>

normVars == << normIn, normOut, normTwice >>

vars == << runVars, normVars >>

InitRun ==
  /\ pc = "ReadManifest"
  /\ pkg = NotRead
  /\ installed = DescriptorFile("notread", Undefined)
  /\ dist = [i \in 1..NumDistFiles |-> Unread]
  /\ packageVersion = Undefined
  /\ reactDevDep = Undefined
  /\ reactDomDevDep = Undefined
  /\ idx = 1
  /\ distFilesChecked = 0
  /\ errors = <<>>
  /\ warnings = <<>>
  /\ log = <<>>
  /\ exitStatus = <<>>

Init ==
  /\ InitRun
  /\ normIn = <<>> /\ normOut = <<>> /\ normTwice = <<>>

\* an uncaught exception: node prints the stack and exits with status 1
Throw ==
  /\ pc' = "crashed"
  /\ exitStatus' = <<1>>

\* faulty variant: a missing react-dom entry is let through (optional chaining)
ManifestThrowsLenient(m) ==
  \/ m.kind # "json"
  \/ ~m.hasDev
  \/ m.react = Undefined

\* lines 25-28 throw: readFileSync (absent), JSON.parse, or a property
\* access or .replace on undefined
ManifestThrows(m) ==
  \/ m.kind # "json"
  \/ ~m.hasDev
  \/ m.react = Undefined
  \/ m.reactDom = Undefined

\* lines 23-32
ReadManifest ==
  /\ pc = "ReadManifest"
  /\ \E m \in Manifests :
       /\ pkg' = m
       /\ IF ManifestThrows(m)
          THEN /\ Throw
               /\ UNCHANGED << packageVersion, reactDevDep, reactDomDevDep >>
          ELSE /\ packageVersion' = m.version
               /\ reactDevDep' = StripOp(m.react)
               /\ reactDomDevDep' = StripOp(m.reactDom)
               /\ pc' = "CheckReact"
               /\ UNCHANGED exitStatus
  /\ UNCHANGED << installed, dist, idx, distFilesChecked, errors, warnings, log >>
  /\ UNCHANGED normVars

\* lines 35-39
CheckReact ==
  /\ pc = "CheckReact"
  /\ IF reactDevDep # packageVersion
     THEN /\ errors' = Append(errors, ReactMismatch(reactDevDep, packageVersion))
          /\ UNCHANGED log
     ELSE /\ log' = Append(log, Line("devDependencies.react matches"))
          /\ UNCHANGED errors
  /\ pc' = "CheckReactDom"
  /\ UNCHANGED << pkg, installed, dist, packageVersion, reactDevDep,
                  reactDomDevDep, idx, distFilesChecked, warnings, exitStatus >>
  /\ UNCHANGED normVars

\* faulty variant: the react-dom check compares the react constraint again
CheckReactDomWrongDep ==
  /\ pc = "CheckReactDom"
  /\ IF reactDevDep # packageVersion
     THEN /\ errors' = Append(errors, ReactDomMismatch(reactDomDevDep, packageVersion))
          /\ UNCHANGED log
     ELSE /\ log' = Append(log, Line("devDependencies.react-dom matches"))
          /\ UNCHANGED errors
  /\ pc' = "CheckInstalled"
  /\ UNCHANGED << pkg, installed, dist, packageVersion, reactDevDep,
                  reactDomDevDep, idx, distFilesChecked, warnings, exitStatus >>
  /\ UNCHANGED normVars

\* faulty variant: the react-dom check is skipped once an error is collected
CheckReactDomElseIf ==
  /\ pc = "CheckReactDom"
  /\ IF errors = <<>> /\ reactDomDevDep # packageVersion
     THEN /\ errors' = Append(errors, ReactDomMismatch(reactDomDevDep, packageVersion))
          /\ UNCHANGED log
     ELSE /\ log' = IF errors = <<>>
                    THEN Append(log, Line("devDependencies.react-dom matches"))
                    ELSE log
          /\ UNCHANGED errors
  /\ pc' = "CheckInstalled"
  /\ UNCHANGED << pkg, installed, dist, packageVersion, reactDevDep,
                  reactDomDevDep, idx, distFilesChecked, warnings, exitStatus >>
  /\ UNCHANGED normVars

\* lines 41-45
CheckReactDom ==
  /\ pc = "CheckReactDom"
  /\ IF reactDomDevDep # packageVersion
     THEN /\ errors' = Append(errors, ReactDomMismatch(reactDomDevDep, packageVersion))
          /\ UNCHANGED log
     ELSE /\ log' = Append(log, Line("devDependencies.react-dom matches"))
          /\ UNCHANGED errors
  /\ pc' = "CheckInstalled"
  /\ UNCHANGED << pkg, installed, dist, packageVersion, reactDevDep,
                  reactDomDevDep, idx, distFilesChecked, warnings, exitStatus >>
  /\ UNCHANGED normVars

\* faulty variant: the installed version is compared to the package version
InstalledErrorsVsPackage(installedVersion, dep) ==
  IF installedVersion # packageVersion
  THEN << InstalledMismatch(installedVersion, dep), HintInstall >>
  ELSE <<>>

\* lines 55-57: the diagnostics of the installed-version comparison
InstalledErrors(installedVersion, dep) ==
  IF installedVersion # dep
  THEN << InstalledMismatch(installedVersion, dep), HintInstall >>
  ELSE <<>>

\* lines 48-61
CheckInstalled ==
  /\ pc = "CheckInstalled"
  /\ \E f \in Descriptors :
       /\ installed' = f
       /\ IF f.kind = "absent"
          THEN /\ pc' = "CheckDist"
               /\ UNCHANGED << errors, log, exitStatus >>
          ELSE IF f.kind = "unparsable"
          THEN /\ Throw
               /\ UNCHANGED << errors, log >>
          ELSE /\ errors' = errors \o InstalledErrors(f.version, reactDevDep)
               /\ log' = IF f.version # reactDevDep THEN log
                         ELSE Append(log, Line("Installed React matches"))
               /\ pc' = "CheckDist"
               /\ UNCHANGED exitStatus
  /\ UNCHANGED << pkg, dist, packageVersion, reactDevDep, reactDomDevDep,
                  idx, distFilesChecked, warnings >>
  /\ UNCHANGED normVars

\* lines 87-90: the diagnostics of one extracted version
DistErrors(file, embeddedVersion, version) ==
  IF embeddedVersion # version
  THEN << DistMismatch(file, embeddedVersion, version), HintBuild >>
  ELSE <<>>

\* lines 74-96: one iteration of the loop over distFiles
CheckDist ==
  /\ pc = "CheckDist"
  /\ idx <= NumDistFiles
  /\ \E f \in DistContents :
       /\ dist' = [dist EXCEPT ![idx] = f]
       /\ IF ~f.exists
          THEN UNCHANGED << errors, warnings, distFilesChecked >>
          ELSE LET versionMatch == VersionMatch(ScannedText(f.content))
               IN IF versionMatch # Null
                  THEN /\ errors' = errors \o
                                      DistErrors(DistFiles[idx], versionMatch, packageVersion)
                       /\ distFilesChecked' = distFilesChecked + 1
                       /\ UNCHANGED warnings
                  ELSE /\ warnings' = Append(warnings, CouldNotExtract(DistFiles[idx]))
                       /\ UNCHANGED << errors, distFilesChecked >>
  /\ idx' = idx + 1
  /\ pc' = IF idx = NumDistFiles THEN "DistSummary" ELSE "CheckDist"
  /\ UNCHANGED << pkg, installed, packageVersion, reactDevDep, reactDomDevDep,
                  log, exitStatus >>
  /\ UNCHANGED normVars

\* lines 98-102
DistSummary ==
  /\ pc = "DistSummary"
  /\ IF distFilesChecked = NumDistFiles
     THEN /\ log' = Append(log, AllDistOk)
          /\ UNCHANGED warnings
     ELSE IF distFilesChecked = 0
     THEN /\ warnings' = Append(warnings, NoDistFilesFound)
          /\ UNCHANGED log
     ELSE UNCHANGED << log, warnings >>
  /\ pc' = "Report"
  /\ UNCHANGED << pkg, installed, dist, packageVersion, reactDevDep,
                  reactDomDevDep, idx, distFilesChecked, errors, exitStatus >>
  /\ UNCHANGED normVars

\* faulty variant: a single error does not fail the run
ExitCodeOffByOne(errs) == IF Len(errs) > 1 THEN 1 ELSE 0

\* lines 107-119: the status process.exit is called with
ExitCode(errs) == IF Len(errs) > 0 THEN 1 ELSE 0

\* lines 105-119
Report ==
  /\ pc = "Report"
  /\ IF ExitCode(errors) = 1
     THEN log' = log \o <<ValidationFailed>> \o errors
     ELSE log' = log \o (IF Len(warnings) > 0
                         THEN <<WarningsHeader>> \o warnings ELSE <<>>)
                     \o <<AllPassed>>
  /\ exitStatus' = << ExitCode(errors) >>
  /\ pc' = "exited"
  /\ UNCHANGED << pkg, installed, dist, packageVersion, reactDevDep,
                  reactDomDevDep, idx, distFilesChecked, errors, warnings >>
  /\ UNCHANGED normVars

Next ==
  \/ ReadManifest
  \/ CheckReact
  \/ CheckReactDom
  \/ CheckInstalled
  \/ CheckDist
  \/ DistSummary
  \/ Report

Spec == Init /\ [][Next]_vars

----------------------------------------------------------------------------
(* The normalisation of a constraint, applied on its own and then again *)

OpPrefixes == UNION { [1..n -> OpChars] : n \in 0..MaxOps }

Bodies == UNION { [1..n -> {"1", "9", "."}] : n \in 0..MaxBody }

NormInputs == { p \o b : p \in OpPrefixes, b \in Bodies }

InitNorm ==
  /\ InitRun
  /\ normIn \in NormInputs
  /\ normOut = Null
  /\ normTwice = Null

\* lines 27-28: the replace call on a constraint
Normalize ==
  /\ normOut = Null
  /\ normOut' = StripOp(normIn)
  /\ UNCHANGED << normIn, normTwice >>
  /\ UNCHANGED runVars

\* the same replace call on its own result
NormalizeAgain ==
  /\ normOut # Null
  /\ normTwice = Null
  /\ normTwice' = StripOp(normOut)
  /\ UNCHANGED << normIn, normOut >>
  /\ UNCHANGED runVars

NextNorm ==
  \/ Normalize
  \/ NormalizeAgain

SpecNorm == InitNorm /\ [][NextNorm]_vars

----------------------------------------------------------------------------
(* What the specification says of the inputs, stated on the files as read *)

\* the constraint without its leading range operator
BareOf(c) ==
  CHOOSE s \in {c} \cup (IF c # <<>> THEN {Tail(c)} ELSE {}) :
    IF c # <<>> /\ c[1] \in OpChars THEN <<c[1]>> \o s = c ELSE s = c

\* three non-empty groups of digits separated by two dots
IsSemver(t) ==
  LET dots == { k \in 1..Len(t) : t[k] = "." }
  IN /\ Cardinality(dots) = 2
     /\ \A k \in (1..Len(t)) \ dots : t[k] \in Digits
     /\ 1 \notin dots /\ Len(t) \notin dots
     /\ \A k \in dots : k + 1 \notin dots

\* an optional range operator followed by a semantic version
IsConstraint(c) ==
  \/ IsSemver(c)
  \/ c # <<>> /\ c[1] \in OpChars /\ IsSemver(Tail(c))

\* the leading line of a file
LeadingLine(content) ==
  LET n == CHOOSE n \in 0..Len(content) :
             /\ \A k \in 1..n : content[k] # NL
             /\ (n < Len(content) => content[n + 1] = NL)
  IN SubSeq(content, 1, n)

\* where "v<digits>.<digits>.<digits>" occurs in the line: <<position of v, last position>>
Occurrences(line) ==
  { ij \in { i \in 1..Len(line) : line[i] = "v" } \X (1..Len(line)) :
      ij[1] < ij[2] /\ IsSemver(SubSeq(line, ij[1] + 1, ij[2])) }

HasEmbedded(line) == Occurrences(line) # {}

\* the first occurrence, taken as long as it goes
Embedded(line) ==
  LET occ == Occurrences(line)
      i == CHOOSE i \in { ij[1] : ij \in occ } : \A ij \in occ : i <= ij[1]
      j == CHOOSE j \in { ij[2] : ij \in { x \in occ : x[1] = i } } :
             \A ij \in occ : ij[1] = i => ij[2] <= j
  IN SubSeq(line, i + 1, j)

\* the embedded version of every file content the model reads, or Null
EmbeddedVersionOf ==
  [ c \in { f.content : f \in DistContents \cup {Unread} } |->
      IF HasEmbedded(LeadingLine(c)) THEN Embedded(LeadingLine(c)) ELSE Null ]

HasVersion(f) == f.exists /\ EmbeddedVersionOf[f.content] # Null

DistHasVersion(i) == HasVersion(dist[i])

DistVersion(i) == EmbeddedVersionOf[dist[i].content]

Contains(seq, m) == \E k \in 1..Len(seq) : seq[k] = m

AtReport == pc \in {"Report", "exited"}

ExpectedReact ==
  IF BareOf(pkg.react) # pkg.version
  THEN << ReactMismatch(BareOf(pkg.react), pkg.version) >> ELSE <<>>

ExpectedReactDom ==
  IF BareOf(pkg.reactDom) # pkg.version
  THEN << ReactDomMismatch(BareOf(pkg.reactDom), pkg.version) >> ELSE <<>>

ExpectedInstalled ==
  IF installed.kind = "json" /\ installed.version # BareOf(pkg.react)
  THEN << InstalledMismatch(installed.version, BareOf(pkg.react)), HintInstall >>
  ELSE <<>>

ExpectedDist(i) ==
  IF DistHasVersion(i) /\ DistVersion(i) # pkg.version
  THEN << DistMismatch(DistFiles[i], DistVersion(i), pkg.version), HintBuild >>
  ELSE <<>>

RECURSIVE ExpectedDistFrom(_)
ExpectedDistFrom(i) ==
  IF i > NumDistFiles THEN <<>> ELSE ExpectedDist(i) \o ExpectedDistFrom(i + 1)

ExpectedErrors ==
  ExpectedReact \o ExpectedReactDom \o ExpectedInstalled \o ExpectedDistFrom(1)

ReportPrinted == Contains(log, ValidationFailed) \/ Contains(log, AllPassed)

\* the manifest lacks one of the two devDependencies constraint strings
LacksConstraint(m) ==
  m.kind = "json" /\ (~m.hasDev \/ m.react = Undefined \/ m.reactDom = Undefined)

\* the manifest is absent, is not parseable, or is malformed
ManifestFaulty(m) ==
  \/ m.kind \in {"absent", "unparsable"}
  \/ LacksConstraint(m)
  \/ m.kind = "json" /\ m.version = Undefined

----------------------------------------------------------------------------
(* The claims *)

\* C1: a run that reaches the report step exits with status 1 if and only if
\* errors is non-empty and with status 0 otherwise, whatever the warnings are.
C1_ExitStatusIffErrors ==
  pc = "exited" =>
    /\ exitStatus \in { <<0>>, <<1>> }
    /\ exitStatus = <<1>> <=> errors # <<>>
    /\ exitStatus = <<0>> <=> errors = <<>>

\* a run with two warnings and no error has exited with status 0
C1_Witness ==
  pc = "exited" /\ exitStatus = <<0>> /\ Len(warnings) >= 2

\* C2: when a run ends with exit 0, the declared version equals both
\* normalized constraints, the installed version if the descriptor exists,
\* and the embedded version of every artifact that yields one.
C2_SuccessImpliesReconciled ==
  pc = "exited" /\ exitStatus = <<0>> =>
    /\ pkg.version = BareOf(pkg.react)
    /\ pkg.version = BareOf(pkg.reactDom)
    /\ installed.kind = "json" => installed.version = pkg.version
    /\ \A i \in 1..NumDistFiles : DistHasVersion(i) => DistVersion(i) = pkg.version

\* a successful run that read a descriptor and an artifact with a version
C2_Witness ==
  /\ pc = "exited" /\ exitStatus = <<0>>
  /\ installed.kind = "json"
  /\ \E i \in 1..NumDistFiles : DistHasVersion(i)
  /\ \E i \in 1..NumDistFiles : dist[i].exists /\ ~DistHasVersion(i)

\* C3 as stated: whenever the manifest is absent, not parseable or malformed
\* (no version string, or one of the two constraints missing), the run has
\* terminated abnormally with a non-zero status and no report is printed.
C3_FaultyManifestAborts ==
  ManifestFaulty(pkg) =>
    /\ ~ReportPrinted
    /\ pc \in {"exited", "crashed"} => pc = "crashed" /\ exitStatus = <<1>>

\* C3 amended: an absent or unparsable manifest, or one lacking a constraint
\* string, aborts the run with status 1 before any check or report; a manifest
\* lacking only the version string never leads to Success: a run that
\* reaches the report prints the failure report and exits with status 1.
C3_FaultyManifestNeverSucceeds ==
  /\ pkg.kind \in {"absent", "unparsable"} \/ LacksConstraint(pkg) =>
       /\ pc = "crashed" /\ exitStatus = <<1>>
       /\ errors = <<>> /\ warnings = <<>> /\ log = <<>>
  /\ ManifestFaulty(pkg) =>
       /\ exitStatus # <<0>>
       /\ ~Contains(log, AllPassed)
       /\ pc = "exited" => exitStatus = <<1>> /\ Contains(log, ValidationFailed)

\* a manifest with a version and a react-dom constraint but no react constraint aborted the run
C3_Witness ==
  /\ pc = "crashed"
  /\ pkg.kind = "json" /\ pkg.hasDev
  /\ pkg.react = Undefined /\ pkg.reactDom # Undefined /\ pkg.version # Undefined

\* C4: with a well-formed manifest every check is performed, in order,
\* before the report: at the report every file has been looked at and errors
\* is the diagnostics of every failing check in check order, each hint right
\* after its mismatch; the failure report prints them all.
C4_AllChecksReported ==
  AtReport =>
    /\ installed.kind # "notread"
    /\ \A i \in 1..NumDistFiles : dist[i] # Unread
    /\ errors = ExpectedErrors
    /\ pc = "exited" /\ errors # <<>> =>
         SubSeq(log, Len(log) - Len(errors) + 1, Len(log)) = errors

\* every check has failed: two constraints, the descriptor and four artifacts
C4_Witness ==
  /\ pc = "exited"
  /\ Len(errors) = 4 + 2 * NumDistFiles
  /\ pkg.version # Undefined

\* C5 as stated: the "no dist files found" warning is collected if and only
\* if none of the four artifact files exists.
C5_NoDistWarningIffNoneExists ==
  AtReport =>
    (Contains(warnings, NoDistFilesFound)
       <=> \A i \in 1..NumDistFiles : ~dist[i].exists)

\* C6: an existing descriptor's version is compared to the normalized react
\* constraint, not to the declared version: two errors (mismatch, reinstall
\* hint) if they differ, none if they are equal; an absent descriptor adds
\* no error and no warning.
C6_InstalledComparedToConstraint ==
  [][ pc = "CheckInstalled" =>
        /\ installed'.kind = "absent" =>
             errors' = errors /\ warnings' = warnings
        /\ installed'.kind = "json" =>
             /\ warnings' = warnings
             /\ errors' = errors \o
                  (IF installed'.version # BareOf(pkg.react)
                   THEN << InstalledMismatch(installed'.version, BareOf(pkg.react)),
                           HintInstall >>
                   ELSE <<>>) ]_vars

\* the installed version equals the constraint, the declared version differs
\* from both, and the check has added nothing
C6_Witness ==
  /\ pc = "CheckDist" /\ idx = 1
  /\ installed.kind = "json"
  /\ installed.version = BareOf(pkg.react)
  /\ pkg.version \in Versions /\ pkg.version # installed.version
  /\ errors = ExpectedReact \o ExpectedReactDom

\* C7: an existing artifact whose first line holds v<digits>.<digits>.<digits>
\* adds nothing if the first match equals the declared version, and exactly
\* a mismatch error followed by a rebuild hint if it differs; never a
\* warning.  Only the first line decides.
C7_ArtifactWithVersion ==
  /\ [][ pc = "CheckDist" /\ HasVersion(dist'[idx]) =>
             LET e == EmbeddedVersionOf[dist'[idx].content]
             IN /\ warnings' = warnings
                /\ errors' = errors \o
                     (IF e = pkg.version THEN <<>>
                      ELSE << DistMismatch(DistFiles[idx], e, pkg.version), HintBuild >>) ]_vars
  /\ [](\A i \in 1..NumDistFiles :
          DistHasVersion(i) => /\ ~Contains(warnings, CouldNotExtract(DistFiles[i]))
                               /\ ~Contains(warnings, NoDistFilesFound))

\* the version is found after two failed starts on the line, and differs
C7_Witness ==
  /\ pc = "exited"
  /\ \E i \in 1..NumDistFiles :
       /\ dist[i] = DistFile(TRUE, LateMatchContent)
       /\ Contains(errors, DistMismatch(DistFiles[i], Ver(1) \o <<"7">>, pkg.version))
  /\ \E i \in 1..NumDistFiles :
       /\ DistHasVersion(i) /\ DistVersion(i) = pkg.version
       /\ ExpectedDist(i) = <<>>

\* C8: an existing artifact whose first line holds no version adds exactly
\* one warning and no error, and does not fail a run in which every other
\* check passes.
C8_ArtifactWithoutVersion ==
  /\ [][ pc = "CheckDist" /\ dist'[idx].exists /\ ~HasVersion(dist'[idx]) =>
             /\ errors' = errors
             /\ warnings' = Append(warnings, CouldNotExtract(DistFiles[idx])) ]_vars
  /\ [](pc = "exited"
          /\ ExpectedReact = <<>> /\ ExpectedReactDom = <<>> /\ ExpectedInstalled = <<>>
          /\ (\A i \in 1..NumDistFiles : DistHasVersion(i) => DistVersion(i) = pkg.version)
        => exitStatus = <<0>>)

\* a successful run read an artifact with a version only on its second line
C8_Witness ==
  /\ pc = "exited" /\ exitStatus = <<0>>
  /\ \E i \in 1..NumDistFiles :
       /\ dist[i] = DistFile(TRUE, NoVersionContent)
       /\ Contains(warnings, CouldNotExtract(DistFiles[i]))
  /\ \E i \in 1..NumDistFiles : DistHasVersion(i)

\* C9: normalization returns a constraint without leading operator character
\* unchanged, removes exactly the leading operator character otherwise, gives
\* the bare semantic version of an optional operator followed by a semantic
\* version, and returns that bare version unchanged when applied again.
C9_Normalization ==
  /\ normOut # Null =>
       /\ (normIn = <<>> \/ normIn[1] \notin OpChars) => normOut = normIn
       /\ (normIn # <<>> /\ normIn[1] \in OpChars) => <<normIn[1]>> \o normOut = normIn
       /\ IsConstraint(normIn) => IsSemver(normOut)
  /\ normTwice # Null /\ IsConstraint(normIn) => normTwice = normOut

\* an operator followed by a semantic version was normalized twice
C9_Witness ==
  /\ normIn # <<>> /\ normIn[1] \in OpChars
  /\ IsSemver(normOut)
  /\ normTwice = normOut

\* C10 as stated: the confirmation that all dist files have correct versions
\* is printed only when all four artifacts exist and each embeds the declared
\* version.
C10_ConfirmationOnlyWhenAllCorrect ==
  Contains(log, AllDistOk) =>
    \A i \in 1..NumDistFiles :
      DistHasVersion(i) /\ DistVersion(i) = pkg.version

====
